---- MODULE Spec2Model ----
(***************************************************************************)
(* mcp-docs-rag: the MCP server of src/index.ts.                           *)
(*                                                                         *)
(* State: the docs directory (DOCS_PATH), the persisted index directory    *)
(* (.indices), the in-memory index cache `indices`, the two global         *)
(* llamaindex settings (Settings.embedModel, Settings.llm) and, for every  *)
(* request handler in flight, its position and its local variables.        *)
(*                                                                         *)
(* A handler is an async function: it runs without interruption up to its  *)
(* next `await` and other handlers run while it waits.  One action of the  *)
(* model is one such uninterrupted segment.                                *)
(*                                                                         *)
(* Strings are sequences of tokens: the name "a.git" is <<"a", ".git">>,   *)
(* the empty string is <<>>, and a URI is such a sequence too, with each   *)
(* '/', '#', '?' and space a token of its own.                             *)
(*                                                                         *)
(* Five specifications share the actions.  Spec runs the tool handlers     *)
(* concurrently on a small docs directory.  SpecCatalog starts from every  *)
(* layout of the docs directory and lists, reads and starts queries.       *)
(* SpecContent starts from every content of a repository and of a text     *)
(* document and reads them and loads them up to the index construction.    *)
(* SpecBuild runs queries whose index construction may fail at each of     *)
(* its steps.  SpecResources lists the resources and reads the URIs        *)
(* listed, over directory names a URI does not carry unchanged.            *)
(***************************************************************************)
EXTENDS Integers, Sequences, FiniteSets, TLC

\* ---------------------------------------------------------------- bounds
\* Number of request handlers that may be in flight at once.
NumTasks == 2
\* Number of requests the server receives in one run.
MaxOps == 3

Tasks == 1..NumTasks

\* ------------------------------------------------------- values and inputs
\* An optional request argument: absent (undefined) or a value.
Undef == [some |-> FALSE, v |-> <<>>]
Some(x) == [some |-> TRUE, v |-> x]

\* String(x) on a name-valued argument: String(undefined) is "undefined".
StringOf(o) == IF o.some THEN o.v ELSE <<"undefined">>

\* String(x) on a URL-valued argument.
StringOfUrl(o) == IF o.some THEN o.v ELSE << <<"undefined">> >>

\* JavaScript truthiness of a string: the empty string is falsy.
Truthy(s) == Len(s) > 0

\* `x ? String(x) : undefined` on an optional argument (lines 518-519).
OptString(o) == IF o.some /\ Truthy(o.v) THEN Some(o.v) ELSE Undef

UrlA == << <<"https:">>, <<>>, <<"h">>, <<"a", ".git">> >>
UrlIo == << <<"https:">>, <<>>, <<"h">>, <<"u", ".git", "hub.io">> >>
Urls == {UrlA, UrlIo}

NameA == <<"a">>
NameN == <<"n">>
NameIo == <<"u", ".git", "hub.io">>
NameIoNorm == <<"u", "hub.io">>
NameUndefined == <<"undefined">>

\* The directory names of DOCS_PATH the requests of the model can touch.
Names == {NameA, NameN, NameIo, NameIoNorm, NameUndefined}

\* ------------------------------------------------------------- file system
\* One top-level entry of DOCS_PATH: kind of the entry itself, of its `.git`
\* and of its `index.txt`. A probed path of kind "gone" is there when
\* fs.existsSync looks and removed (by a command working in the directory, or
\* by the user) before fs.statSync does, which then throws.
NoEntry == [kind |-> "none", git |-> "none", idx |-> "none"]
EmptyDir == [kind |-> "dir", git |-> "none", idx |-> "none"]

\* fs.existsSync(path.join(DOCS_PATH, name))
ExistsSync(f, n) == f[n].kind # "none"

\* normalizeRepoName: last '/'-part of the URL with the first ".git" removed.
RemoveFirstGit(s) ==
  IF \E i \in 1..Len(s) : s[i] = ".git"
  THEN LET i == CHOOSE k \in 1..Len(s) :
                  s[k] = ".git" /\ \A j \in 1..(k - 1) : s[j] # ".git"
       IN SubSeq(s, 1, i - 1) \o SubSeq(s, i + 1, Len(s))
  ELSE s

normalizeRepoName(repoUrl) == RemoveFirstGit(repoUrl[Len(repoUrl)])

\* The directory `git clone <url>` creates when no directory is given: the
\* last part of the URL without a trailing ".git".
CloneDirName(repoUrl) ==
  LET last == repoUrl[Len(repoUrl)]
  IN IF Len(last) > 0 /\ last[Len(last)] = ".git"
     THEN SubSeq(last, 1, Len(last) - 1)
     ELSE last

\* entry.name.startsWith('.')
StartsWithDot(n) == Len(n) > 0 /\ n[1] = "."

\* The test of the leading '.' forgotten.
IsListedWithDots(f, n) ==
  /\ f[n].kind = "dir"
  /\ (f[n].git = "dir" \/ f[n].idx = "file")

\* Lines 77-110: the entry is a directory, its name has no leading '.', and
\* it holds a `.git` directory or an `index.txt` file.
IsListed(f, n) ==
  /\ f[n].kind = "dir"
  /\ ~StartsWithDot(n)
  /\ (f[n].git = "dir" \/ f[n].idx = "file")

IndexTxt == <<"index.txt">>

\* The two tests swapped: an entry with an index.txt file is a text document.
DescriptorTextFirst(f, n) ==
  IF f[n].idx = "file"
  THEN [id |-> n, name |-> n, path |-> <<n, IndexTxt>>, description |-> <<"Text document: ", n>>]
  ELSE [id |-> n, name |-> n, path |-> <<n>>, description |-> <<"Git repository: ", n>>]

\* Lines 96-110: what is pushed for an entry that is listed.
Descriptor(f, n) ==
  IF f[n].git = "dir"
  THEN [id |-> n, name |-> n, path |-> <<n>>, description |-> <<"Git repository: ", n>>]
  ELSE [id |-> n, name |-> n, path |-> <<n, IndexTxt>>, description |-> <<"Text document: ", n>>]

\* fs.readdirSync(DOCS_PATH): the names of the entries, in directory order.
RECURSIVE InSomeOrder(_)
InSomeOrder(S) ==
  IF S = {} THEN <<>>
  ELSE LET x == CHOOSE y \in S : TRUE IN <<x>> \o InSomeOrder(S \ {x})

ReaddirSync(f) == InSomeOrder({n \in DOMAIN f : f[n].kind # "none"})

\* The loop of lines 76-111 over the entries still to visit.
RECURSIVE ScanEntries(_, _, _)
ScanEntries(f, entries, documents) ==
  IF entries = <<>> THEN documents
  ELSE ScanEntries(f, Tail(entries),
                   IF IsListed(f, Head(entries))
                   THEN Append(documents, Descriptor(f, Head(entries)))
                   ELSE documents)

\* The array listDocuments returns.
ScannedDocuments(f) == ScanEntries(f, ReaddirSync(f), <<>>)

listDocuments(f) == {ScannedDocuments(f)[i] : i \in 1..Len(ScannedDocuments(f))}

\* Line 94, which no try encloses: fs.statSync(indexPath) throws for an
\* entry that line 77 lets through, and listDocuments rejects.
IndexProbeThrows(f, n) ==
  /\ f[n].kind = "dir"
  /\ ~StartsWithDot(n)
  /\ f[n].idx = "gone"

ScanThrows(f) == \E n \in DOMAIN f : IndexProbeThrows(f, n)

\* documents.find(c => c.id === documentId); NoDocument stands for undefined.
NoDocument == [id |-> <<>>, name |-> <<>>, path |-> <<>>, description |-> <<>>]

Find(documents, documentId) ==
  IF \E c \in documents : c.id = documentId
  THEN CHOOSE c \in documents : c.id = documentId
  ELSE NoDocument

\* `!document` in loadDocument (line 168)
NotInCatalog(doc) == doc = NoDocument

\* The catalog check of rag_query left out: every id goes on to loadDocument.
RagQueryNotFoundSkipped(doc) == FALSE

\* `!document` in the rag_query handler (line 467)
RagQueryNotFound(doc) == doc = NoDocument

\* fs.statSync(document.path) succeeds: the path of a descriptor is the entry
\* (<<n>>) or its index.txt (<<n, IndexTxt>>).
PathExists(f, p) ==
  IF Len(p) = 1 THEN f[p[1]].kind # "none"
  ELSE f[p[1]].kind = "dir" /\ f[p[1]].idx \notin {"none", "gone"}

\* fs.statSync(document.path).isDirectory()
IsDirectory(f, p) ==
  IF Len(p) = 1 THEN f[p[1]].kind = "dir"
  ELSE f[p[1]].kind = "dir" /\ f[p[1]].idx = "dir"

\* ---------------------------------------------------- collection contents
\* Bounds of the directory trees drawn as the content of a collection.
MaxDepth == 2
MaxWidth == 2

\* An entry below a collection directory: a regular file, a directory with
\* its entries, or something else (a symbolic link, a socket). `readable`
\* tells whether readFileSync / readdirSync on it succeeds.
FileNode(name, readable) ==
  [name |-> name, type |-> "file", readable |-> readable, children |-> <<>>]
DirNode(name, readable, children) ==
  [name |-> name, type |-> "dir", readable |-> readable, children |-> children]
OtherNode(name) ==
  [name |-> name, type |-> "other", readable |-> TRUE, children |-> <<>>]

FileNames == {<<"x.md">>, <<".", "env">>}
DirNames == {<<"sub">>, <<".", "cache">>}
DotGit == <<".", "git">>

Leaves ==
  {FileNode(n, TRUE) : n \in FileNames}
    \cup {FileNode(<<"x.md">>, FALSE), OtherNode(<<"link">>)}

\* The entries of one directory: at most MaxWidth of them, names distinct.
Listings(nodes) ==
  {s \in UNION {[1..k -> nodes] : k \in 0..MaxWidth} :
     \A i, j \in 1..Len(s) : i # j => s[i].name # s[j].name}

\* The entries that can stand d levels above the deepest files.
RECURSIVE Nodes(_)
Nodes(d) ==
  IF d = 0 THEN Leaves
  ELSE Leaves \cup {DirNode(n, TRUE, c) : n \in DirNames, c \in Listings(Nodes(d - 1))}
              \cup {DirNode(n, FALSE, <<>>) : n \in DirNames}

Trees == Listings(Nodes(MaxDepth - 1))

\* What a collection directory holds besides `.git` and `index.txt`, what
\* its `.git` directory holds, and whether its index.txt can be read.
DefaultContent ==
  [tree |-> <<FileNode(<<"x.md">>, TRUE)>>,
   gitTree |-> <<FileNode(<<"HEAD">>, TRUE)>>,
   indexReadable |-> TRUE]

\* fs.readdirSync(path.join(DOCS_PATH, n)): the entries of collection n.
Children(f, c, n) ==
  (IF f[n].git = "dir"
   THEN <<DirNode(DotGit, TRUE, c[n].gitTree)>>
   ELSE IF f[n].git = "file" THEN <<FileNode(DotGit, TRUE)>>
   ELSE <<>>)
  \o (IF f[n].idx = "file" THEN <<FileNode(IndexTxt, c[n].indexReadable)>>
      ELSE IF f[n].idx = "dir" THEN <<DirNode(IndexTxt, TRUE, <<>>)>>
      ELSE <<>>)
  \o c[n].tree

\* The entries of the directory a descriptor's path names: the collection's
\* own, or those of an index.txt that is a directory (none).
EntriesAt(f, c, p) == IF Len(p) = 1 THEN Children(f, c, p[1]) ELSE <<>>

\* new Document({text, metadata: {name, source}}); the text of a file is
\* identified by the path it was read from.
FileDocument(name, fullPath) ==
  [text |-> [kind |-> "content", name |-> <<>>, path |-> fullPath],
   name |-> name, source |-> fullPath]

\* Every file becomes a document, readable or not and dotfile or not.
FileDocumentsAll(entry, fullPath) == <<FileDocument(entry.name, fullPath)>>

\* Lines 132-149: a regular file whose name has no leading '.' is read; a
\* read that throws is caught, warned about and yields nothing.
FileDocuments(entry, fullPath) ==
  IF entry.type = "file" /\ ~StartsWithDot(entry.name) /\ entry.readable
  THEN <<FileDocument(entry.name, fullPath)>>
  ELSE <<>>

\* readDirectoryRecursively: the loop of lines 125-150 over `entries`, the
\* result of readdirSync(dirPath). `threw` is set when the readdirSync of a
\* subdirectory (line 123, in no try) throws, which rejects the whole walk.
RECURSIVE readDirectoryRecursively(_, _)
readDirectoryRecursively(dirPath, entries) ==
  IF entries = <<>> THEN [threw |-> FALSE, result |-> <<>>]
  ELSE LET entry == Head(entries)
           fullPath == Append(dirPath, entry.name)
           here == IF entry.type = "dir"
                   THEN IF entry.readable
                        THEN readDirectoryRecursively(fullPath, entry.children)
                        ELSE [threw |-> TRUE, result |-> <<>>]
                   ELSE [threw |-> FALSE, result |-> FileDocuments(entry, fullPath)]
           rest == readDirectoryRecursively(dirPath, Tail(entries))
       IN IF here.threw THEN here
          ELSE IF rest.threw THEN rest
          ELSE [threw |-> FALSE, result |-> here.result \o rest.result]

\* Lines 181-184: the notice pushed when the walk found nothing.
EmptyNotice(doc) ==
  [text |-> [kind |-> "empty-notice", name |-> doc.name, path |-> doc.path],
   name |-> <<"empty-notice">>, source |-> doc.path]

\* The notice left out: an empty walk is handed on as it is.
WithEmptyNoticeNever(items, doc) == items

\* Lines 179-185.
WithEmptyNotice(items, doc) == IF Len(items) = 0 THEN <<EmptyNotice(doc)>> ELSE items

\* ------------------------------------------------------------------ state
VARIABLES
  fs,                  \* DOCS_PATH: Names -> entry
  content,             \* per entry of DOCS_PATH: the files and directories in it
  persisted,           \* ids with persisted index state under .indices
  indices,             \* the index cache: id -> [index, description]
  embedModel,          \* Settings.embedModel: 0 the initial backend, t the
                       \* GeminiEmbedding object created by handler t
  llm,                 \* Settings.llm, likewise
  pc,                  \* position of each handler
  req,                 \* the request a handler is serving
  document,            \* local `document` of rag_query / loadDocument
  documentItems,       \* local `documentItems` of loadDocument (line 172)
  originalEmbedModel,  \* local of loadDocument (line 193)
  originalLLM,         \* local of rag_query (line 480)
  index,               \* local `index` of rag_query (line 477)
  buildCount,          \* per id: indexes VectorStoreIndex.fromDocuments returned
  embedBefore,         \* Settings.embedModel when loadDocument was called
  llmBefore,           \* Settings.llm when the rag_query handler was called
  faults,              \* TRUE once a storage, build or generation call failed
  ops,                 \* requests received (and removals done) so far
  received,            \* the request received in the latest step, and by whom
  sent,                \* the response sent in the latest step, and by whom
  reply                \* what a list or read handler answered in the latest step

vars == <<fs, content, persisted, indices, embedModel, llm, pc, req, document,
          documentItems, originalEmbedModel, originalLLM, index, buildCount,
          embedBefore, llmBefore, faults, ops, received, sent, reply>>

NoIndex == [index |-> 0, description |-> <<>>]

NoRequest == [tool |-> "none", url |-> Undef, name |-> Undef, sub |-> Undef, query |-> Undef]

\* A handler's outcome: kind "result" (returned) or "error" (thrown), the
\* message, the id the message names and the index object a query used.
Outcome(kind, msg, id, ix) == [kind |-> kind, msg |-> msg, id |-> id, index |-> ix]

NoResult == Outcome("none", "", <<>>, 0)

\* The text of line 471, which names the missing id and the two add tools.
NotFoundGuidance(documentId) ==
  Outcome("result", "Document not found. Please add it manually using add_git_repository or add_text_file tools.", documentId, 0)

\* No request arrived, no response left in this step.
NothingReceived == [task |-> 0, request |-> NoRequest]
NothingSent == [task |-> 0, outcome |-> NoResult]

\* The answer of list_documents, resources/list or resources/read: the
\* descriptors or resources listed, or the URI read, the id taken from it
\* and the text returned for it, or the message of the error thrown.
Reply(op, error, documents, uri, id, text) ==
  [op |-> op, error |-> error, documents |-> documents, uri |-> uri, id |-> id,
   text |-> text]

NoText == [form |-> "none", name |-> <<>>, files |-> <<>>, path |-> <<>>]
NoReply == Reply("none", "", <<>>, <<>>, <<>>, NoText)

\* The docs directory at start-up.
InitLayouts ==
  { [n \in Names |-> NoEntry],
    [n \in Names |-> IF n = NameA THEN [kind |-> "dir", git |-> "dir", idx |-> "none"]
                     ELSE IF n = NameN THEN [kind |-> "dir", git |-> "none", idx |-> "file"]
                     ELSE NoEntry] }

\* The server after start-up: nothing indexed, no request in progress.
InitServer ==
  /\ persisted = {}
  /\ indices = [n \in Names |-> NoIndex]
  /\ embedModel = 0
  /\ llm = 0
  /\ pc = [t \in Tasks |-> "idle"]
  /\ req = [t \in Tasks |-> NoRequest]
  /\ document = [t \in Tasks |-> NoDocument]
  /\ documentItems = [t \in Tasks |-> <<>>]
  /\ originalEmbedModel = [t \in Tasks |-> 0]
  /\ originalLLM = [t \in Tasks |-> 0]
  /\ index = [t \in Tasks |-> 0]
  /\ buildCount = [n \in Names |-> 0]
  /\ embedBefore = [t \in Tasks |-> 0]
  /\ llmBefore = [t \in Tasks |-> 0]
  /\ faults = FALSE
  /\ ops = 0
  /\ received = NothingReceived
  /\ sent = NothingSent
  /\ reply = NoReply

Init ==
  /\ fs \in InitLayouts
  /\ content = [n \in Names |-> DefaultContent]
  /\ InitServer

\* The transport hands request r to an idle handler t.
Receive(t, r) ==
  /\ pc[t] = "idle"
  /\ ops < MaxOps
  /\ ops' = ops + 1
  /\ received' = [task |-> t, request |-> r]
  /\ reply' = NoReply
  /\ UNCHANGED content

\* A segment that continues a handler already running.
Resume(t, at) ==
  /\ pc[t] = at
  /\ received' = NothingReceived
  /\ reply' = NoReply
  /\ UNCHANGED <<ops, content>>

\* The handler of task t ends: its response leaves and its locals die.
Finish(t, out) ==
  /\ pc' = [pc EXCEPT ![t] = "idle"]
  /\ sent' = [task |-> t, outcome |-> out]
  /\ req' = [req EXCEPT ![t] = NoRequest]
  /\ document' = [document EXCEPT ![t] = NoDocument]
  /\ documentItems' = [documentItems EXCEPT ![t] = <<>>]
  /\ originalEmbedModel' = [originalEmbedModel EXCEPT ![t] = 0]
  /\ originalLLM' = [originalLLM EXCEPT ![t] = 0]
  /\ index' = [index EXCEPT ![t] = 0]
  /\ embedBefore' = [embedBefore EXCEPT ![t] = 0]
  /\ llmBefore' = [llmBefore EXCEPT ![t] = 0]

\* The handler of task t goes on to position `at`, where it awaits.
Goto(t, at) ==
  /\ pc' = [pc EXCEPT ![t] = at]
  /\ sent' = NothingSent

\* ------------------------------------------------------------- rag_query
\* Arguments the model draws for document_id and query.
ArgNames == {Undef, Some(<<>>), Some(NameA), Some(NameN)}
ArgQueries == {Undef, Some(<<>>), Some(<<"q">>)}

\* The check of line 458 with the query forgotten.
RagQueryArgsInvalidNoQuery(documentId, query) == ~Truthy(documentId)

\* `!documentId || !query` (line 458)
RagQueryArgsInvalid(documentId, query) == ~Truthy(documentId) \/ ~Truthy(query)

\* `indices[documentId]?.index` (line 160)
CacheHit(ind, documentId) == documentId \in DOMAIN ind /\ ind[documentId].index # 0

\* Lines 193-201: remember the embedding backend, install a new
\* GeminiEmbedding and call storageContextFromDefaults.
SwapEmbedAndOpenStorage(t) ==
  /\ originalEmbedModel' = [originalEmbedModel EXCEPT ![t] = embedModel]
  /\ embedModel' = t
  /\ Goto(t, "ld_storage")

\* Lines 455-464: the rag_query handler up to `await listDocuments()`; a scan
\* that throws ends in the catch of lines 505-512.
CallRagQuery(t, did, q) ==
  LET r == [tool |-> "rag_query", url |-> Undef, name |-> did, sub |-> Undef, query |-> q]
      documentId == StringOf(did)
      query == StringOf(q)
  IN /\ Receive(t, r)
     /\ IF RagQueryArgsInvalid(documentId, query)
        THEN Finish(t, Outcome("error", "Document ID and query are required", <<>>, 0))
        ELSE IF ScanThrows(fs)
        THEN Finish(t, Outcome("result", "Error processing query: ENOENT", documentId, 0))
        ELSE /\ req' = [req EXCEPT ![t] = r]
             /\ document' = [document EXCEPT ![t] = Find(listDocuments(fs), documentId)]
             /\ llmBefore' = [llmBefore EXCEPT ![t] = llm]
             /\ Goto(t, "rq_listed")
             /\ UNCHANGED <<documentItems, originalEmbedModel, originalLLM, index, embedBefore>>
     /\ UNCHANGED <<fs, persisted, indices, embedModel, llm, buildCount, faults>>

\* loadDocument handed the descriptor rag_query found instead of scanning.
LoadDocumentScanReused(t) == document[t]

\* `await listDocuments()` and `documents.find(...)` in loadDocument (lines
\* 164-166): a scan of its own, made when loadDocument is called.
LoadDocumentScan(t) == Find(listDocuments(fs), StringOf(req[t].name))

\* Lines 465-477 and 160-164: the catalog check of rag_query, then the call
\* of loadDocument up to its `await listDocuments()` or its cached return.
RqListed(t) ==
  /\ Resume(t, "rq_listed")
  /\ LET documentId == StringOf(req[t].name)
     IN IF RagQueryNotFound(document[t])
        THEN Finish(t, NotFoundGuidance(documentId))
        ELSE IF CacheHit(indices, documentId)
        THEN /\ index' = [index EXCEPT ![t] = indices[documentId].index]
             /\ embedBefore' = [embedBefore EXCEPT ![t] = embedModel]
             /\ Goto(t, "rq_loaded")
             /\ UNCHANGED <<req, document, documentItems, originalEmbedModel,
                            originalLLM, llmBefore>>
        ELSE IF ScanThrows(fs)
        THEN Finish(t, Outcome("result", "Error processing query: ENOENT", documentId, 0))
        ELSE /\ document' = [document EXCEPT ![t] = LoadDocumentScan(t)]
             /\ embedBefore' = [embedBefore EXCEPT ![t] = embedModel]
             /\ Goto(t, "ld_listed")
             /\ UNCHANGED <<req, documentItems, originalEmbedModel, originalLLM,
                            index, llmBefore>>
  /\ UNCHANGED <<fs, persisted, indices, embedModel, llm, buildCount, faults>>

\* Lines 165-190 (and 193-201 for a single file, which has no await before
\* them): resolve the descriptor and read the collection's content. A walk
\* that throws, or a readFileSync of the index.txt that throws (line 188, in
\* no try), rejects loadDocument and ends in the catch of rag_query.
LdListed(t) ==
  /\ Resume(t, "ld_listed")
  /\ IF NotInCatalog(document[t])
     THEN /\ Finish(t, Outcome("result", "Error processing query: Document not found", StringOf(req[t].name), 0))
          /\ UNCHANGED embedModel
     ELSE IF ~PathExists(fs, document[t].path)
     THEN /\ Finish(t, Outcome("result", "Error processing query: ENOENT", StringOf(req[t].name), 0))
          /\ UNCHANGED embedModel
     ELSE IF IsDirectory(fs, document[t].path)
     THEN LET walk == readDirectoryRecursively(document[t].path,
                                               EntriesAt(fs, content, document[t].path))
          IN IF walk.threw
             THEN /\ Finish(t, Outcome("result", "Error processing query: EACCES", StringOf(req[t].name), 0))
                  /\ UNCHANGED embedModel
             ELSE /\ documentItems' = [documentItems EXCEPT ![t] = walk.result]
                  /\ Goto(t, "ld_read")
                  /\ UNCHANGED <<embedModel, req, document, originalEmbedModel,
                                 originalLLM, index, embedBefore, llmBefore>>
     ELSE IF ~content[document[t].id].indexReadable
     THEN /\ Finish(t, Outcome("result", "Error processing query: EACCES", StringOf(req[t].name), 0))
          /\ UNCHANGED embedModel
     ELSE /\ documentItems' = [documentItems EXCEPT ![t] =
                                 <<FileDocument(document[t].id, document[t].path)>>]
          /\ SwapEmbedAndOpenStorage(t)
          /\ UNCHANGED <<req, document, originalLLM, index, embedBefore, llmBefore>>
  /\ UNCHANGED <<fs, persisted, indices, llm, buildCount, faults>>

\* Lines 179-201 after `await readDirectoryRecursively(...)`.
LdRead(t) ==
  /\ Resume(t, "ld_read")
  /\ documentItems' = [documentItems EXCEPT ![t] = WithEmptyNotice(@, document[t])]
  /\ SwapEmbedAndOpenStorage(t)
  /\ UNCHANGED <<fs, persisted, indices, llm, req, document, originalLLM, index,
                 buildCount, embedBefore, llmBefore, faults>>

\* Lines 201-206: storageContextFromDefaults returns and
\* VectorStoreIndex.fromDocuments is called.
LdStorageOk(t) ==
  /\ Resume(t, "ld_storage")
  /\ Goto(t, "ld_build")
  /\ UNCHANGED <<fs, persisted, indices, embedModel, llm, req, document,
                 documentItems, originalEmbedModel, originalLLM, index, buildCount,
                 embedBefore, llmBefore, faults>>

\* storageContextFromDefaults rejects: loadDocument throws at line 201 and the
\* catch of rag_query (lines 505-512) turns the error into a text result.
LdStorageFail(t) ==
  /\ Resume(t, "ld_storage")
  /\ Finish(t, Outcome("result", "Error processing query: storage", StringOf(req[t].name), 0))
  /\ faults' = TRUE
  /\ UNCHANGED <<fs, persisted, indices, embedModel, llm, buildCount>>

\* The embedding backend line 211 puts back.
RestoredEmbedModel(t) == originalEmbedModel[t]

\* Lines 206-219: fromDocuments returns a new index; the embedding backend is
\* put back, the index is cached and returned to rag_query.
LdBuildOk(t) ==
  /\ Resume(t, "ld_build")
  /\ LET documentId == StringOf(req[t].name)
         ix == buildCount[documentId] + 1
     IN /\ buildCount' = [buildCount EXCEPT ![documentId] = ix]
        /\ persisted' = persisted \cup {documentId}
        /\ embedModel' = RestoredEmbedModel(t)
        /\ indices' = [indices EXCEPT ![documentId] =
                         [index |-> ix, description |-> document[t].description]]
        /\ index' = [index EXCEPT ![t] = ix]
  /\ Goto(t, "rq_loaded")
  /\ UNCHANGED <<fs, llm, req, document, documentItems, originalEmbedModel,
                 originalLLM, embedBefore, llmBefore, faults>>

\* The index is cached before fromDocuments has returned it: a build that
\* fails leaves an entry behind.
LdBuildFailCaching(t) ==
  /\ Resume(t, "ld_build")
  /\ Finish(t, Outcome("result", "Error processing query: build", StringOf(req[t].name), 0))
  /\ faults' = TRUE
  /\ indices' = [indices EXCEPT ![StringOf(req[t].name)] =
                   [index |-> buildCount[StringOf(req[t].name)] + 1,
                    description |-> document[t].description]]
  /\ UNCHANGED <<fs, persisted, embedModel, llm, buildCount>>

\* fromDocuments rejects: loadDocument throws at line 206.
LdBuildFail(t) ==
  /\ Resume(t, "ld_build")
  /\ Finish(t, Outcome("result", "Error processing query: build", StringOf(req[t].name), 0))
  /\ faults' = TRUE
  /\ UNCHANGED <<fs, persisted, indices, embedModel, llm, buildCount>>

\* Lines 480-492: remember the LLM, install a new Gemini and start the query.
RqLoaded(t) ==
  /\ Resume(t, "rq_loaded")
  /\ originalLLM' = [originalLLM EXCEPT ![t] = llm]
  /\ llm' = t
  /\ Goto(t, "rq_query")
  /\ UNCHANGED <<fs, persisted, indices, embedModel, req, document,
                 documentItems, originalEmbedModel, index, buildCount, embedBefore,
                 llmBefore, faults>>

\* Lines 492-504: the query returns; the LLM is put back and the answer returned.
RqQueryOk(t) ==
  /\ Resume(t, "rq_query")
  /\ llm' = originalLLM[t]
  /\ Finish(t, Outcome("result", "answer", StringOf(req[t].name), index[t]))
  /\ UNCHANGED <<fs, persisted, indices, embedModel, buildCount, faults>>

\* queryEngine.query rejects: the catch (lines 505-512) returns a text result.
RqQueryFail(t) ==
  /\ Resume(t, "rq_query")
  /\ Finish(t, Outcome("result", "Error processing query: generation", StringOf(req[t].name), 0))
  /\ faults' = TRUE
  /\ UNCHANGED <<fs, persisted, indices, embedModel, llm, buildCount>>

\* ----------------------------------------------------- add_git_repository
EmptyUrl == << <<>> >>
UrlF == << <<"https:">>, <<>>, <<"h">>, <<"f.txt">> >>
ArgRepoUrls == {Undef, Some(EmptyUrl), Some(UrlA), Some(UrlIo)}
ArgSubdirs == {Undef, Some(<<"s">>)}
ArgRepoNames == {Undef, Some(NameN)}
ArgFileUrls == {Undef, Some(EmptyUrl), Some(UrlF)}
ArgDocNames == {Undef, Some(<<>>), Some(NameN)}

\* The URLs a repository or a file can be fetched from; a command given any
\* other URL (the string "undefined") cannot succeed.
Fetchable(u) == u \in Urls \cup {UrlF}

\* Truthiness of a URL string: only the empty string is falsy.
TruthyUrl(u) == ~(Len(u) = 1 /\ Len(u[1]) = 0)

\* `documentName || normalizeRepoName(repoUrl)` (line 230)
RepoName(repoUrl, documentName) ==
  IF documentName.some THEN documentName.v ELSE normalizeRepoName(repoUrl)

\* The locals of cloneRepository, from the request handler t serves.
RepoUrlOf(t) == StringOfUrl(req[t].url)
SubdirOf(t) == OptString(req[t].sub)
RepoNameOf(t) == RepoName(RepoUrlOf(t), OptString(req[t].name))

\* Ingestion that drops every cached index.
KeepQueryStateEvicting ==
  /\ indices' = [n \in Names |-> NoIndex]
  /\ UNCHANGED <<persisted, embedModel, llm, buildCount, faults>>

\* What cloneRepository and downloadFile never assign.
KeepQueryState == UNCHANGED <<persisted, indices, embedModel, llm, buildCount, faults>>

\* The locals of rag_query, which the add_* handlers do not have.
KeepQueryLocals ==
  UNCHANGED <<document, documentItems, originalEmbedModel, originalLLM, index,
              embedBefore, llmBefore>>

\* Lines 517-256: the add_git_repository handler up to the `await execAsync`.
CallAddGit(t, url, sub, name) ==
  LET r == [tool |-> "add_git_repository", url |-> url, name |-> name, sub |-> sub,
            query |-> Undef]
      repositoryUrl == StringOfUrl(url)
      repoName == RepoName(repositoryUrl, OptString(name))
  IN /\ Receive(t, r)
     /\ IF ~TruthyUrl(repositoryUrl)
        THEN Finish(t, Outcome("error", "Repository URL is required", <<>>, 0))
        ELSE /\ req' = [req EXCEPT ![t] = r]
             /\ Goto(t, IF ExistsSync(fs, repoName) THEN "git_pull"
                        ELSE IF OptString(sub).some THEN "git_sparse"
                        ELSE "git_clone")
             /\ KeepQueryLocals
     /\ UNCHANGED fs
     /\ KeepQueryState

\* Lines 528-543: the text the handler returns names repoName.
AddedGit(t) == Finish(t, Outcome("result", "Added git repository", RepoNameOf(t), 0))

\* An exec'd command fails: the rejection leaves the handler as a thrown error.
CommandFailed(t) == Finish(t, Outcome("error", "Command failed", <<>>, 0))

\* Line 236: `cd repoPath && git pull` succeeds; it needs a repository at
\* repoPath (DOCS_PATH itself is taken not to lie inside a git work tree).
GitPullOk(t) ==
  /\ Resume(t, "git_pull")
  /\ fs[RepoNameOf(t)].kind = "dir" /\ fs[RepoNameOf(t)].git = "dir"
  /\ IF SubdirOf(t).some
     THEN /\ Goto(t, "git_sparse_set")
          /\ UNCHANGED req
          /\ KeepQueryLocals
     ELSE AddedGit(t)
  /\ UNCHANGED fs
  /\ KeepQueryState

GitPullFail(t) ==
  /\ Resume(t, "git_pull")
  /\ CommandFailed(t)
  /\ UNCHANGED fs
  /\ KeepQueryState

\* Line 240: `git sparse-checkout set <subdirectory>`.
GitSparseSetOk(t) ==
  /\ Resume(t, "git_sparse_set")
  /\ fs[RepoNameOf(t)].kind = "dir" /\ fs[RepoNameOf(t)].git = "dir"
  /\ AddedGit(t)
  /\ UNCHANGED fs
  /\ KeepQueryState

GitSparseSetFail(t) ==
  /\ Resume(t, "git_sparse_set")
  /\ CommandFailed(t)
  /\ UNCHANGED fs
  /\ KeepQueryState

\* mkdir -p repoPath && cd repoPath && git init: the entry is a directory
\* with a `.git` directory.
WithGitDir(e) == [kind |-> "dir", git |-> "dir", idx |-> e.idx]

\* Lines 245-251: the sparse clone into repoPath succeeds.
GitSparseOk(t) ==
  /\ Resume(t, "git_sparse")
  /\ Fetchable(RepoUrlOf(t))
  /\ fs' = [fs EXCEPT ![RepoNameOf(t)] = WithGitDir(@)]
  /\ AddedGit(t)
  /\ KeepQueryState

\* The sparse clone fails: before `git init` (nothing left behind) or at the
\* pull (the initialised directory stays).
GitSparseFail(t, initialised) ==
  /\ Resume(t, "git_sparse")
  /\ fs' = IF initialised THEN [fs EXCEPT ![RepoNameOf(t)] = WithGitDir(@)] ELSE fs
  /\ CommandFailed(t)
  /\ KeepQueryState

\* The directory line 254 clones into: the command names none, so git derives
\* it from the URL.
CloneTarget(t) == CloneDirName(RepoUrlOf(t))

\* Line 254: `cd DOCS_PATH && git clone <url>` succeeds; git refuses to clone
\* into an existing directory that is not empty.
GitCloneOk(t) ==
  /\ Resume(t, "git_clone")
  /\ Fetchable(RepoUrlOf(t))
  /\ fs[CloneTarget(t)] \in {NoEntry, EmptyDir}
  /\ fs' = [fs EXCEPT ![CloneTarget(t)] = WithGitDir(@)]
  /\ AddedGit(t)
  /\ KeepQueryState

GitCloneFail(t) ==
  /\ Resume(t, "git_clone")
  /\ CommandFailed(t)
  /\ UNCHANGED fs
  /\ KeepQueryState

\* ---------------------------------------------------------- add_text_file
\* Lines 547-282: the add_text_file handler up to the `await execAsync`.
CallAddText(t, url, name) ==
  LET r == [tool |-> "add_text_file", url |-> url, name |-> name, sub |-> Undef,
            query |-> Undef]
      fileUrl == StringOfUrl(url)
      documentName == StringOf(name)
  IN /\ Receive(t, r)
     /\ IF ~TruthyUrl(fileUrl)
        THEN /\ Finish(t, Outcome("error", "File URL is required", <<>>, 0))
             /\ UNCHANGED fs
        ELSE IF ~Truthy(documentName)
        THEN /\ Finish(t, Outcome("error", "Document name is required", <<>>, 0))
             /\ UNCHANGED fs
        ELSE /\ fs' = IF ExistsSync(fs, documentName) THEN fs
                      ELSE [fs EXCEPT ![documentName] = EmptyDir]
             /\ req' = [req EXCEPT ![t] = r]
             /\ Goto(t, "wget")
             /\ KeepQueryLocals
     /\ KeepQueryState

\* Line 282: `cd docDir && wget -O index.txt <url>` succeeds.
WgetOk(t) ==
  /\ Resume(t, "wget")
  /\ Fetchable(StringOfUrl(req[t].url))
  /\ LET documentName == StringOf(req[t].name)
     IN /\ fs[documentName].kind = "dir" /\ fs[documentName].idx # "dir"
        /\ fs' = [fs EXCEPT ![documentName].idx = "file"]
        /\ Finish(t, Outcome("result", "Added document", documentName, 0))
  /\ KeepQueryState

\* wget fails: -O has created index.txt already, or the command failed
\* before wget ran.
WgetFail(t, created) ==
  /\ Resume(t, "wget")
  /\ LET documentName == StringOf(req[t].name)
     IN fs' = IF created /\ fs[documentName].kind = "dir" /\ fs[documentName].idx = "none"
              THEN [fs EXCEPT ![documentName].idx = "file"]
              ELSE fs
  /\ CommandFailed(t)
  /\ KeepQueryState

\* ------------------------------------------------------------ environment
\* The user removes a collection's directory from DOCS_PATH; the server reads
\* the directory afresh on every scan (line 74) and keeps no handle on it.
EnvRemove(n) ==
  /\ ops < MaxOps
  /\ ops' = ops + 1
  /\ fs[n].kind # "none"
  /\ fs' = [fs EXCEPT ![n] = NoEntry]
  /\ received' = NothingReceived
  /\ sent' = NothingSent
  /\ reply' = NoReply
  /\ UNCHANGED <<content, persisted, indices, embedModel, llm, pc, req, document,
                 documentItems, originalEmbedModel, originalLLM, index, buildCount,
                 embedBefore, llmBefore, faults>>

Next ==
  \/ \E n \in Names : EnvRemove(n)
  \/ \E t \in Tasks :
      \/ \E did \in ArgNames, q \in ArgQueries : CallRagQuery(t, did, q)
      \/ RqListed(t)
      \/ LdListed(t)
      \/ LdRead(t)
      \/ LdStorageOk(t)
      \/ LdStorageFail(t)
      \/ LdBuildOk(t)
      \/ LdBuildFail(t)
      \/ RqLoaded(t)
      \/ RqQueryOk(t)
      \/ RqQueryFail(t)
      \/ \E url \in ArgRepoUrls, sub \in ArgSubdirs, name \in ArgRepoNames :
           CallAddGit(t, url, sub, name)
      \/ GitPullOk(t)
      \/ GitPullFail(t)
      \/ GitSparseSetOk(t)
      \/ GitSparseSetFail(t)
      \/ GitSparseOk(t)
      \/ \E initialised \in BOOLEAN : GitSparseFail(t, initialised)
      \/ GitCloneOk(t)
      \/ GitCloneFail(t)
      \/ \E url \in ArgFileUrls, name \in ArgDocNames : CallAddText(t, url, name)
      \/ WgetOk(t)
      \/ \E created \in BOOLEAN : WgetFail(t, created)

Spec == Init /\ [][Next]_vars

\* ---------------------------------------------------- listing and reading
\* The state the list and read handlers never assign.
KeepServer ==
  UNCHANGED <<fs, content, persisted, indices, embedModel, llm, pc, req, document,
              documentItems, originalEmbedModel, originalLLM, index, buildCount,
              embedBefore, llmBefore, faults, ops>>

\* Lines 438-452: the list_documents tool; `documents` is what its
\* listDocuments() returned, from which the text and the total are made.
ListDocumentsTool ==
  /\ reply' = IF ScanThrows(fs)
              THEN Reply("list_documents", "ENOENT", <<>>, <<>>, <<>>, NoText)
              ELSE Reply("list_documents", "", ScannedDocuments(fs), <<>>, <<>>, NoText)
  /\ received' = NothingReceived
  /\ sent' = NothingSent
  /\ KeepServer

\* `docs:///${document.id}` (line 312)
UriOf(id) == <<"docs:", "/", "/", "/">> \o id

\* The percent-encoding the URL parser applies to a character of a path: a
\* space is one of the characters it encodes.
PercentEncode(c) == IF c = " " THEN "%20" ELSE c

\* The characters that end the path of a URL: the query and the fragment
\* begin there.
EndsPath(c) == c \in {"?", "#"}

\* `new URL(uri).pathname` for a URI of scheme docs with an empty host (line
\* 324): what follows "docs://" up to the first '?' or '#', each character
\* percent-encoded. Nothing is decoded.
Pathname(uri) ==
  LET rest == SubSeq(uri, 4, Len(uri))
      stop == IF \E i \in 1..Len(rest) : EndsPath(rest[i])
              THEN CHOOSE i \in 1..Len(rest) :
                     EndsPath(rest[i]) /\ \A j \in 1..(i - 1) : ~EndsPath(rest[j])
              ELSE Len(rest) + 1
  IN [i \in 1..(stop - 1) |-> PercentEncode(rest[i])]

\* Lines 307-318: the resources/list handler.
ListResources ==
  /\ reply' = IF ScanThrows(fs)
              THEN Reply("resources/list", "ENOENT", <<>>, <<>>, <<>>, NoText)
              ELSE Reply("resources/list", "",
                         [i \in 1..Len(ScannedDocuments(fs)) |->
                            [uri |-> UriOf(ScannedDocuments(fs)[i].id),
                             name |-> ScannedDocuments(fs)[i].name,
                             description |-> ScannedDocuments(fs)[i].description]],
                         <<>>, <<>>, NoText)
  /\ received' = NothingReceived
  /\ sent' = NothingSent
  /\ KeepServer

\* `url.pathname.replace(/^\//, '')` (line 325)
WithoutLeadingSlash(s) == IF Len(s) > 0 /\ s[1] = "/" THEN Tail(s) ELSE s

\* Every entry counts as a file.
RegularFilesAll(entries) == entries

\* `.filter(entry => entry.isFile())` (line 339)
RegularFiles(entries) == SelectSeq(entries, LAMBDA e : e.type = "file")

\* `.map(entry => entry.name)` (line 340)
EntryNames(entries) == [i \in 1..Len(entries) |-> entries[i].name]

\* Lines 323-354: the resources/read handler.
ReadResource(uri) ==
  LET documentId == WithoutLeadingSlash(Pathname(uri))
      doc == Find(listDocuments(fs), documentId)
  IN /\ reply' =
          IF ScanThrows(fs)
          THEN Reply("resources/read", "ENOENT", <<>>, uri, documentId, NoText)
          ELSE IF doc = NoDocument
          THEN Reply("resources/read", "Document not found", <<>>, uri, documentId, NoText)
          ELSE IF IsDirectory(fs, doc.path)
          THEN Reply("resources/read", "", <<>>, uri, documentId,
                     [form |-> "listing", name |-> doc.name,
                      files |-> EntryNames(RegularFiles(EntriesAt(fs, content, doc.path))),
                      path |-> <<>>])
          ELSE IF ~content[doc.id].indexReadable
          THEN Reply("resources/read", "EACCES", <<>>, uri, documentId, NoText)
          ELSE Reply("resources/read", "", <<>>, uri, documentId,
                     [form |-> "content", name |-> <<>>, files |-> <<>>,
                      path |-> doc.path])
     /\ received' = NothingReceived
     /\ sent' = NothingSent
     /\ KeepServer

\* ------------------------------------------- every layout of DOCS_PATH
NameDot == <<".", "indices">>
CatalogNames == {NameA, NameN, NameDot}
Probes == {"none", "file", "dir", "gone"}

\* An entry of DOCS_PATH: nothing, a loose file, or a directory with any
\* kind of `.git` and of `index.txt`.
CatalogEntries ==
  {NoEntry, [kind |-> "file", git |-> "none", idx |-> "none"]}
    \cup {[kind |-> "dir", git |-> g, idx |-> i] : g \in Probes, i \in Probes}

CatalogLayouts == [CatalogNames -> CatalogEntries]

InitCatalog ==
  /\ fs \in CatalogLayouts
  /\ content = [n \in CatalogNames |-> DefaultContent]
  /\ InitServer

TheQuery == Some(<<"q">>)
FirstTask == CHOOSE t \in Tasks : \A u \in Tasks : t <= u

\* Listing, reading and the start of a query, by one client.
NextCatalog ==
  \/ ListDocumentsTool
  \/ \E n \in CatalogNames : ReadResource(UriOf(n))
  \/ \E n \in CatalogNames : CallRagQuery(FirstTask, Some(n), TheQuery)
  \/ RqListed(FirstTask)
  \/ LdListed(FirstTask)

SpecCatalog == InitCatalog /\ [][NextCatalog]_vars

\* --------------------------------------- every content of a collection
\* `a` is a git repository whose tree and `.git` entries are drawn, `n` a
\* text document whose index.txt can or cannot be read.
ContentLayout ==
  [n \in Names |-> IF n = NameA THEN [kind |-> "dir", git |-> "dir", idx |-> "none"]
                   ELSE IF n = NameN THEN [kind |-> "dir", git |-> "none", idx |-> "file"]
                   ELSE NoEntry]

GitTrees == {<<>>, <<FileNode(<<"HEAD">>, TRUE)>>, <<FileNode(<<"HEAD">>, FALSE)>>}

InitContent ==
  /\ fs = ContentLayout
  /\ \E tr \in Trees, gt \in GitTrees, r \in BOOLEAN :
       content = [n \in Names |->
                    IF n = NameA
                    THEN [tree |-> tr, gitTree |-> gt, indexReadable |-> TRUE]
                    ELSE [tree |-> <<>>, gitTree |-> <<>>, indexReadable |-> r]]
  /\ InitServer

\* Reading a collection, and a query up to the call of fromDocuments.
NextContent ==
  \/ \E n \in {NameA, NameN, NameUndefined} : ReadResource(UriOf(n))
  \/ \E n \in {NameA, NameN} : CallRagQuery(FirstTask, Some(n), TheQuery)
  \/ RqListed(FirstTask)
  \/ LdListed(FirstTask)
  \/ LdRead(FirstTask)
  \/ LdStorageOk(FirstTask)

SpecContent == InitContent /\ [][NextContent]_vars

\* ------------------------------------------- builds that can fail anywhere
\* The repository `a` holds a file, or a subdirectory that cannot be read.
BuildTrees == {<<FileNode(<<"x.md">>, TRUE)>>, <<DirNode(<<"sub">>, FALSE, <<>>)>>}

InitBuild ==
  /\ fs = ContentLayout
  /\ \E tr \in BuildTrees, r \in BOOLEAN :
       content = [n \in Names |->
                    IF n = NameA
                    THEN [tree |-> tr, gitTree |-> <<>>, indexReadable |-> TRUE]
                    ELSE [tree |-> <<>>, gitTree |-> <<>>, indexReadable |-> r]]
  /\ InitServer

\* Concurrent queries of the two collections, every step of which can fail,
\* while the user may remove a collection.
NextBuild ==
  \/ \E n \in {NameA, NameN} : EnvRemove(n)
  \/ \E t \in Tasks :
      \/ \E n \in {NameA, NameN} : CallRagQuery(t, Some(n), TheQuery)
      \/ RqListed(t)
      \/ LdListed(t)
      \/ LdRead(t)
      \/ LdStorageOk(t)
      \/ LdStorageFail(t)
      \/ LdBuildOk(t)
      \/ LdBuildFail(t)
      \/ RqLoaded(t)
      \/ RqQueryOk(t)
      \/ RqQueryFail(t)

SpecBuild == InitBuild /\ [][NextBuild]_vars

\* ------------------------------------------------ names a URI can garble
\* Directory names with a space and with a '#', next to plain ones.
NameSpaced == <<"my", " ", "docs">>
NameHashed == <<"a", "#", "b">>
ResourceNames == {NameA, NameN, NameSpaced, NameHashed}

\* Every name is absent, a git repository or a text document.
ResourceLayouts ==
  [ResourceNames -> {NoEntry,
                     [kind |-> "dir", git |-> "dir", idx |-> "none"],
                     [kind |-> "dir", git |-> "none", idx |-> "file"]}]

InitResources ==
  /\ fs \in ResourceLayouts
  /\ content = [n \in ResourceNames |-> DefaultContent]
  /\ InitServer

\* A client lists the resources and reads a URI of the last listing.
NextResources ==
  \/ ListResources
  \/ \E i \in 1..Len(reply.documents) :
       /\ reply.op = "resources/list"
       /\ ReadResource(reply.documents[i].uri)

SpecResources == InitResources /\ [][NextResources]_vars

\* ------------------------------------------------------------ properties
\* The id a rag_query request asks for.
DocIdOf(t) == StringOf(req[t].name)

\* An argument that is given and is the empty string.
IsEmptyArg(o) == o.some /\ o.v = <<>>

\* Handler t is between `Settings.embedModel = geminiEmbed` (line 198) and
\* the restore of line 211.
InEmbedSwap(t) == pc[t] \in {"ld_storage", "ld_build"}

\* Handler t is between `Settings.llm = gemini` (line 486) and line 497.
InLlmSwap(t) == pc[t] = "rq_query"

\* C1: once a loadDocument(id) has completed successfully (the cache holds an
\* entry for id), every loadDocument(id) called later returns at once with the
\* index object the first completed call returned (build 1 of id) and the
\* build counter of id is 1.
SingleBuildGuarantee ==
  [][\A t \in Tasks :
       (/\ pc[t] = "rq_listed"
        /\ pc'[t] # "rq_listed"
        /\ document[t] # NoDocument
        /\ indices[DocIdOf(t)].index # 0)
       => (/\ pc'[t] = "rq_loaded"
           /\ index'[t] = 1
           /\ buildCount'[DocIdOf(t)] = 1)]_vars

\* C2: loadDocument calls for one id that overlap trigger one build: the
\* build counter of every id is at most 1, and all handlers that hold an index
\* of the same id hold the same object.
ConcurrentCallsBuildOnce ==
  /\ \A n \in Names : buildCount[n] <= 1
  /\ \A t, u \in Tasks :
       (/\ pc[t] \in {"rq_loaded", "rq_query"}
        /\ pc[u] \in {"rq_loaded", "rq_query"}
        /\ DocIdOf(t) = DocIdOf(u))
       => index[t] = index[u]

\* C3: when loadDocument finishes after its swap, by returning an index or by
\* failing in storageContextFromDefaults or fromDocuments, Settings.embedModel
\* is what it was when loadDocument was called.
EmbedSwapExceptionSafe ==
  [][\A t \in Tasks :
       (InEmbedSwap(t) /\ pc'[t] \notin {"ld_storage", "ld_build"})
       => embedModel' = embedBefore[t]]_vars

\* C4: when a rag_query handler finishes after its generation call, with an
\* answer or with a failure, Settings.llm is what it was when the handler was
\* called.
LlmSwapExceptionSafe ==
  [][\A t \in Tasks :
       (InLlmSwap(t) /\ pc'[t] # "rq_query")
       => llm' = llmBefore[t]]_vars

\* C5: of the handlers that serve different collection ids, at most one at a
\* time is between its set-backend step and its restore step on the same
\* setting (so that each runs its backend call with the backend it installed).
SwapsAreAtomic ==
  \A t, u \in Tasks :
    (t # u /\ DocIdOf(t) # DocIdOf(u))
    => /\ ~(InEmbedSwap(t) /\ InEmbedSwap(u))
       /\ ~(InLlmSwap(t) /\ InLlmSwap(u))

\* C6: whenever no handler is in flight and no backend call has failed, both
\* settings hold the backends they held at start-up.
BackendsRestoredAtRest ==
  ((\A t \in Tasks : pc[t] = "idle") /\ ~faults)
  => (embedModel = 0 /\ llm = 0)

\* The shared state a rejected call must leave alone.
StorageCacheAndSettings == <<fs, persisted, indices, embedModel, llm, buildCount>>

\* C7: a rag_query whose document_id or query is the empty string throws
\* "Document ID and query are required" in the segment that receives it: no
\* scan, no build, and the docs directory, the persisted indexes, the cache
\* and both settings are unchanged.
EmptyArgumentRejected ==
  [][(/\ received'.task # 0
      /\ received'.request.tool = "rag_query"
      /\ (IsEmptyArg(received'.request.name) \/ IsEmptyArg(received'.request.query)))
     => (/\ pc'[received'.task] = "idle"
         /\ sent' = [task |-> received'.task,
                     outcome |-> Outcome("error", "Document ID and query are required", <<>>, 0)]
         /\ StorageCacheAndSettings' = StorageCacheAndSettings)]_vars

\* A query with the empty string for a collection the catalog lists.
EmptyArgumentRejectedWitness ==
  /\ received.task # 0
  /\ received.request.tool = "rag_query"
  /\ received.request.name.some
  /\ received.request.name.v \in Names
  /\ IsListed(fs, received.request.name.v)
  /\ IsEmptyArg(received.request.query)
  /\ sent.task = received.task
  /\ sent.outcome.kind = "error"

\* A request that leaves out an argument its tool requires.
OmitsRequired(r) ==
  \/ r.tool = "rag_query" /\ (~r.name.some \/ ~r.query.some)
  \/ r.tool = "add_git_repository" /\ ~r.url.some
  \/ r.tool = "add_text_file" /\ (~r.url.some \/ ~r.name.some)

\* C8: a tool call that omits a required argument throws in the segment that
\* receives it and leaves the docs directory, the persisted indexes and the
\* cache unchanged.
MissingArgumentRejected ==
  [][(received'.task # 0 /\ OmitsRequired(received'.request))
     => (/\ pc'[received'.task] = "idle"
         /\ sent'.task = received'.task
         /\ sent'.outcome.kind = "error"
         /\ UNCHANGED <<fs, persisted, indices>>)]_vars

ReportedIdIsListed ==
  [][\A t \in Tasks :
       (/\ pc[t] \in {"git_pull", "git_sparse_set", "git_sparse", "git_clone", "wget"}
        /\ sent'.task = t
        /\ sent'.outcome.kind = "result")
       => \E d \in listDocuments(fs') : d.id = sent'.outcome.id]_vars

\* A step of an add_git_repository or add_text_file handler: the call itself
\* or the return of one of its commands.
IngestionStep ==
  \/ received'.request.tool \in {"add_git_repository", "add_text_file"}
  \/ \E t \in Tasks :
       /\ pc[t] \in {"git_pull", "git_sparse_set", "git_sparse", "git_clone", "wget"}
       /\ pc'[t] # pc[t]

\* C11: no step of add_git_repository or add_text_file, whether it succeeds
\* or fails, changes the index cache or counts as a build; a cache entry
\* exists only for an id that an index was built for.
IngestionKeepsCache ==
  [][/\ IngestionStep => UNCHANGED <<indices, buildCount>>
     /\ \A n \in Names : indices'[n].index # 0 => buildCount'[n] > 0]_vars

\* An ingestion has just made id n a listed collection while the cache holds
\* an index of another id and none of n.
IngestionKeepsCacheWitness ==
  /\ sent.task # 0
  /\ sent.outcome.msg \in {"Added git repository", "Added document"}
  /\ sent.outcome.id \in Names
  /\ \E d \in listDocuments(fs) : d.id = sent.outcome.id
  /\ indices[sent.outcome.id] = NoIndex
  /\ \E n \in Names : indices[n].index # 0

CacheEntriesPermanent ==
  [][\A n \in Names : indices[n].index # 0 => indices'[n] = indices[n]]_vars

\* The answer of a list_documents call that returned.
Listed == reply.op = "list_documents" /\ reply.error = ""

\* How many descriptors of the answer carry id n.
ListedTimes(n) ==
  Cardinality({i \in 1..Len(reply.documents) : reply.documents[i].id = n})

ScanNeverRaises == reply.op = "list_documents" => reply.error = ""

\* C18: a listed entry is described as a git repository, with the directory
\* as its path, exactly when it holds a `.git` directory, and as a text
\* document, with its index.txt as path, exactly when it holds no `.git`
\* directory but an `index.txt` file; resources/read answers with a file
\* listing, and loadDocument walks the directory, exactly for the former.
ClassificationGitFirst ==
  /\ Listed =>
       \A i \in 1..Len(reply.documents) :
         LET d == reply.documents[i]
             n == d.id
         IN /\ (d.path = <<n>> /\ d.description = <<"Git repository: ", n>>)
                 <=> fs[n].git = "dir"
            /\ (d.path = <<n, IndexTxt>> /\ d.description = <<"Text document: ", n>>)
                 <=> (fs[n].git # "dir" /\ fs[n].idx = "file")
  /\ (reply.op = "resources/read" /\ reply.error = "") =>
       /\ reply.text.form = "listing" <=> fs[reply.id].git = "dir"
       /\ reply.text.form = "content" <=> fs[reply.id].git # "dir"
  /\ \A t \in Tasks :
       /\ pc[t] = "ld_read" =>
            (fs[document[t].id].git = "dir" /\ document[t].description[1] = "Git repository: ")
       /\ pc[t] = "ld_storage" =>
            (fs[document[t].id].git # "dir" /\ document[t].description[1] = "Text document: ")

\* A directory with both a `.git` directory and an index.txt file has been
\* read as a repository and is being loaded as one.
ClassificationGitFirstWitness ==
  /\ reply.op = "resources/read"
  /\ reply.text.form = "listing"
  /\ fs[reply.id].idx = "file"
  /\ \E t \in Tasks : pc[t] = "ld_read" /\ fs[document[t].id].idx = "file"

\* The entries of a sequence, as a set.
Range(q) == {q[i] : i \in 1..Len(q)}

\* The paths of the regular files below dirPath, at any depth, whose names
\* have no leading '.' and that can be read.
RECURSIVE PlainFiles(_, _)
PlainFiles(dirPath, entries) ==
  UNION {IF e.type = "dir" THEN PlainFiles(Append(dirPath, e.name), e.children)
         ELSE IF e.type = "file" /\ e.name[1] # "." /\ e.readable
         THEN {Append(dirPath, e.name)}
         ELSE {} : e \in Range(entries)}

\* C13: VectorStoreIndex.fromDocuments is never called with an empty list:
\* for a directory collection it gets the documents of the walk, or, when the
\* walk found none, exactly one notice whose text names the collection and
\* the path checked; for a text-file collection exactly one document, the
\* content of its index.txt.
BuildGetsDocuments ==
  \A t \in Tasks :
    pc[t] = "ld_build" =>
      LET d == document[t]
          items == documentItems[t]
          files == PlainFiles(d.path, EntriesAt(fs, content, d.path))
      IN /\ Len(items) >= 1
         /\ IF fs[d.id].git = "dir"
            THEN IF files = {}
                 THEN /\ Len(items) = 1
                      /\ items[1].text.kind = "empty-notice"
                      /\ items[1].text.name = d.name
                      /\ items[1].text.path = d.path
                 ELSE {items[i].source : i \in 1..Len(items)} = files
            ELSE /\ Len(items) = 1
                 /\ items[1].text.kind = "content"
                 /\ items[1].text.path = <<d.id, IndexTxt>>

\* fromDocuments is called with the notice alone: the repository holds
\* entries, none of which the walk could turn into a document.
BuildGetsDocumentsWitness ==
  \E t \in Tasks :
    /\ pc[t] = "ld_build"
    /\ documentItems[t] = <<EmptyNotice(document[t])>>
    /\ content[document[t].id].tree # <<>>

\* C14: the walk of a directory tree returns exactly one document for every
\* readable regular file without a leading '.', at any depth, and none for
\* dotfiles, unreadable files and other entries; an unreadable file does not
\* end the walk.
WalkReturnsPlainFiles ==
  \A t \in Tasks :
    pc[t] = "ld_read" =>
      LET items == documentItems[t]
          files == PlainFiles(document[t].path,
                              EntriesAt(fs, content, document[t].path))
      IN /\ Len(items) = Cardinality(files)
         /\ {items[i].source : i \in 1..Len(items)} = files
         /\ \A i \in 1..Len(items) : items[i].text.path = items[i].source

\* The walk has passed an unreadable file and a dotfile and returned the
\* document of a file in a subdirectory visited after them.
WalkReturnsPlainFilesWitness ==
  \E t \in Tasks :
    /\ pc[t] = "ld_read"
    /\ document[t].id = NameA
    /\ content[NameA].tree =
         <<FileNode(<<"x.md">>, FALSE),
           DirNode(<<"sub">>, TRUE, <<FileNode(<<".", "env">>, TRUE),
                                       FileNode(<<"x.md">>, TRUE)>>)>>
    /\ \E i \in 1..Len(documentItems[t]) :
         documentItems[t][i].source = <<NameA, <<"sub">>, <<"x.md">>>>
    /\ Len(documentItems[t]) = Len(content[NameA].gitTree) + 1

\* C15: resources/read fails with the not-found error for an id the catalog
\* does not list; for a git repository it returns a listing, under the
\* repository's name, of the names of the regular files that are entries of
\* the repository directory itself; for a text document whose index.txt can
\* be read it returns the content of that index.txt.
ReadCollection ==
  reply.op = "resources/read" =>
    LET id == reply.id
        listed == \E d \in listDocuments(fs) : d.id = id
        names == {e.name : e \in {c \in Range(Children(fs, content, id)) : c.type = "file"}}
    IN /\ ~listed => (reply.error = "Document not found" /\ reply.text = NoText)
       /\ (listed /\ fs[id].git = "dir") =>
            /\ reply.error = ""
            /\ reply.text.form = "listing"
            /\ reply.text.name = id
            /\ Range(reply.text.files) = names
            /\ Len(reply.text.files) = Cardinality(names)
       /\ (listed /\ fs[id].git # "dir" /\ content[id].indexReadable) =>
            /\ reply.error = ""
            /\ reply.text.form = "content"
            /\ reply.text.path = <<id, IndexTxt>>

\* A repository with a file in a subdirectory has been read: the listing
\* has the top-level file only.
ReadCollectionWitness ==
  /\ reply.op = "resources/read"
  /\ reply.id = NameA
  /\ content[NameA].tree =
       <<DirNode(<<"sub">>, TRUE, <<FileNode(<<"x.md">>, TRUE)>>),
         FileNode(<<".", "env">>, TRUE)>>
  /\ reply.text.files = << <<".", "env">> >>

\* C16: once loadDocument has resolved the descriptor, no read failure inside
\* the collection keeps it from going on to the index construction.
ContentErrorsKeepBuild ==
  [][\A t \in Tasks :
       (/\ pc[t] = "ld_listed"
        /\ pc'[t] # "ld_listed"
        /\ document[t] # NoDocument
        /\ PathExists(fs, document[t].path))
       => pc'[t] \in {"ld_read", "ld_storage"}]_vars

\* The messages rag_query answers with when loadDocument threw: the
\* collection was not found, its content could not be read, the storage could
\* not be opened, the index could not be built.
LoadFailures ==
  {"Error processing query: Document not found", "Error processing query: ENOENT",
   "Error processing query: EACCES", "Error processing query: storage",
   "Error processing query: build"}

\* C21: a step in which loadDocument fails, at whichever of its steps, leaves
\* the cache and the build counters as they were; an entry exists only for
\* an id an index was built for; and a rag_query that finds its collection
\* listed and no entry cached goes on to build, not to a cached index.
FailedBuildKeepsCache ==
  [][/\ \A t \in Tasks :
          /\ (/\ pc[t] \in {"ld_listed", "ld_read", "ld_storage", "ld_build"}
               /\ pc'[t] = "idle")
              => (/\ sent'.task = t
                  /\ sent'.outcome.msg \in LoadFailures
                  /\ sent'.outcome.index = 0
                  /\ UNCHANGED <<indices, buildCount>>)
          /\ (/\ pc[t] = "rq_listed"
               /\ pc'[t] # "rq_listed"
               /\ document[t] # NoDocument
               /\ indices[DocIdOf(t)].index = 0)
              => (pc'[t] = "ld_listed" /\ index'[t] = 0)
     /\ \A n \in Names : indices'[n].index # 0 => buildCount'[n] > 0]_vars

\* After failures, a query of the repository whose subdirectory cannot be
\* read has just failed again, and the cache holds no entry for it.
FailedBuildKeepsCacheWitness ==
  /\ faults
  /\ sent.task # 0
  /\ sent.outcome.msg = "Error processing query: EACCES"
  /\ sent.outcome.id = NameA
  /\ indices[NameA] = NoIndex
  /\ \E t \in Tasks : pc[t] = "ld_build"

\* C22: reading the URI a collection is listed under answers for that very
\* collection: the id the read handler takes from the URI is the id listed,
\* and the read does not fail with not-found.
ResourceUriRoundTrip ==
  reply.op = "resources/read" =>
    \A d \in listDocuments(fs) :
      reply.uri = UriOf(d.id) => (reply.id = d.id /\ reply.error = "")

====
